---- MODULE Spec2Model ----
(***************************************************************************)
(* A model of news_scraper.py: the fallback resolution of one source's     *)
(* candidate feed URLs (try_feed_urls), the normalisation of feed entries,  *)
(* dedupe, the two run modes of main, and save.                             *)
(*                                                                         *)
(* Strings that the code strips (title, link, dedup key) are sequences of   *)
(* one-character strings, so that str.strip() is computed.  The HTTP        *)
(* transport, feedparser.parse and dateutil's parser are library calls:     *)
(* their results are chosen from the small sets below.                      *)
(***************************************************************************)
EXTENDS Integers, Sequences, FiniteSets, TLC

\* ------------------------------------------------------------------ bounds

\* Longest feed whose entries are chosen freely among FeedEntries.
MaxShort == 2
\* Longest feed returned by the parser (longer feeds are GenFeed(n)).
MaxEntries == 13
\* Longest record sequence given to dedupe in SpecDedupe.
MaxLen == 3

\* --------------------------------------------------------------- constants

HEADLINES_PER_SOURCE == 4
MAX_PER_SOURCE_FOR_GLOBAL == 12
TOTAL_GLOBAL_TOP == 4

U_TC == "https://techcrunch.com/feed/"
U_ET1 == "https://b2b.economictimes.indiatimes.com/rss/topstories"
U_ET2 == "https://economictimes.indiatimes.com/feeds/newsdefault.cms"
U_ET3 == "https://economictimes.indiatimes.com/rssfeedsdefault.cms"
U_ET4 == "https://economictimes.indiatimes.com/defaultinterstitial.cms"

\* The dict FEEDS in insertion order (the order FEEDS.items() yields).
FEEDS ==
  << [name |-> "TechCrunch", urls |-> <<U_TC>>],
     [name |-> "Economic Times - Top Stories",
      urls |-> <<U_ET1, U_ET2, U_ET3, U_ET4>>] >>

Modes == {"per_source", "global_top"}

\* ----------------------------------------------------------------- strings

Whitespace == {" ", "\n", "\t"}

RECURSIVE LStrip(_)
LStrip(s) ==
  IF s # <<>> /\ Head(s) \in Whitespace THEN LStrip(Tail(s)) ELSE s

RECURSIVE RStrip(_)
RStrip(s) ==
  IF s # <<>> /\ s[Len(s)] \in Whitespace
  THEN RStrip(SubSeq(s, 1, Len(s) - 1))
  ELSE s

\* str.strip()
Strip(s) == RStrip(LStrip(s))

\* Python's `a or b` on strings: a if a is non-empty, else b.
StrOr(a, b) == IF a # <<>> THEN a ELSE b

\* getattr(e, k, d) on a feedparser entry: e[k] when the entry has k.
GetAttr(e, k, d) == IF k \in DOMAIN e THEN e[k] ELSE d

Min(a, b) == IF a <= b THEN a ELSE b

\* ---------------------------------------------------------------- datetimes

None == [kind |-> "None"]
Naive(t) == [kind |-> "naive", t |-> t]
Aware(t) == [kind |-> "aware", t |-> t]

\* datetime(y, mo, d, h, mi, s): raises ValueError outside the calendar ranges.
ValidYMDHMS(tp) ==
  /\ tp[1] >= 1
  /\ tp[2] \in 1..12
  /\ tp[3] \in 1..31
  /\ tp[4] \in 0..23
  /\ tp[5] \in 0..59
  /\ tp[6] \in 0..59

\* An order-preserving instant of a naive datetime built from a time tuple.
Instant(tp) ==
  (((((tp[1] - 2024) * 12 + (tp[2] - 1)) * 31 + (tp[3] - 1)) * 24
      + tp[4]) * 60 + tp[5]) * 60 + tp[6]

\* datetime(*e.published_parsed[:6]) inside try/except -> None
DatetimeFromTuple(tp) ==
  IF ValidYMDHMS(tp) THEN Naive(Instant(tp)) ELSE None

\* A time tuple for day d, hour h of January 2024.
Jan(d, h) == <<2024, 1, d, h, 0, 0, 0, 0, 0>>

\* dateutil_parser.parse(text) inside try/except -> None: a text with a UTC
\* offset gives an aware datetime, one without gives a naive one, and a text
\* that is no date raises.
DateutilParse(text) ==
  CASE text = "2024-01-03 00:00:00" -> Naive(Instant(Jan(3, 0)))
    [] text = "2024-01-02 05:00:00+05:00" -> Aware(Instant(Jan(2, 0)))
    [] OTHER -> None

\* Python's `a or b` on the raw date texts.
TextOr(a, b) == IF a # "" THEN a ELSE b

\* ------------------------------------------------------------ feed entries

\* Entries the parser may return.  Between them they have: a title or link
\* to strip; a missing title, a missing link, both missing; a link shared by
\* two entries; a title equal to another entry's link; a parsed-date tuple;
\* a date only in `updated`; a textual date with and without a UTC offset;
\* a text that is no date; no date at all.
E_full ==
  [title |-> <<" ", "a", " ">>, link |-> <<"x">>,
   published |-> "Mon, 01 Jan 2024 00:00:00 GMT",
   published_parsed |-> Jan(1, 0)]
E_samelink ==
  [link |-> <<"x", "\n">>]
E_nokey ==
  [title |-> <<" ">>, published |-> "Tue, 02 Jan 2024 00:00:00 GMT",
   published_parsed |-> Jan(2, 0)]
E_offset ==
  [title |-> <<"b">>, published |-> "2024-01-02 05:00:00+05:00"]
E_updated ==
  [title |-> <<"a">>, link |-> <<"y">>, updated |-> "2024-01-03 00:00:00"]
E_titlelikelink ==
  [title |-> <<"x">>, published |-> "yesterday-ish"]

FeedEntries ==
  {E_full, E_samelink, E_nokey, E_offset, E_updated, E_titlelikelink}

Alphabet ==
  <<"a", "b", "c", "d", "e", "f", "g", "h", "i", "j", "k", "l", "m", "n",
    "o", "p", "q", "r", "s", "t", "u", "v", "w", "x", "y", "z">>

\* The i-th entry of a long feed: its own link, and a date that grows with i.
GenEntry(i) ==
  [title |-> <<"t">>, link |-> <<"g", Alphabet[i]>>,
   published |-> "Jan 2024", published_parsed |-> Jan(i, 12)]

GenFeed(n) == [i \in 1..n |-> GenEntry(i)]

ShortFeeds == UNION {[1..n -> FeedEntries] : n \in 1..MaxShort}


\* -------------------------------------------------------------- normalizer

\* Lines 84-106: one entry of the feed to one row.
NormalizeEntry(e, debug_name) ==
  LET title == Strip(GetAttr(e, "title", <<>>))
      link == Strip(GetAttr(e, "link", <<>>))
      published == TextOr(GetAttr(e, "published", ""), GetAttr(e, "updated", ""))
      pp == GetAttr(e, "published_parsed", <<>>)
      published_dt ==
        IF pp # <<>> THEN DatetimeFromTuple(pp)
        ELSE IF published # "" THEN DateutilParse(published)
        ELSE None
  IN  [source |-> debug_name, title |-> title, link |-> link,
       published |-> published, published_dt |-> published_dt]

\* The slice taken one entry too long.
TakeOneMore(entries, max_items) ==
  SubSeq(entries, 1, Min(max_items + 1, Len(entries)))

\* parsed.entries[:max_items]
Take(entries, max_items) == SubSeq(entries, 1, Min(max_items, Len(entries)))

\* The rows built by the loop of lines 82-106.
RowsOf(entries, max_items, debug_name) ==
  LET taken == Take(entries, max_items)
  IN  [k \in 1..Len(taken) |-> NormalizeEntry(taken[k], debug_name)]

\* ------------------------------------------------------------------ dedupe

\* key = (r.get("link") or r.get("title") or "").strip()
Key(r) == Strip(StrOr(StrOr(r.link, r.title), <<>>))

RECURSIVE DedupeLoop(_, _, _, _)
DedupeLoop(rows, k, seen, out) ==
  IF k > Len(rows) THEN out
  ELSE LET key == Key(rows[k])
       IN  IF key = <<>> THEN DedupeLoop(rows, k + 1, seen, out)
           ELSE IF key \in seen THEN DedupeLoop(rows, k + 1, seen, out)
           ELSE DedupeLoop(rows, k + 1, seen \cup {key}, Append(out, rows[k]))

\* dedupe with the loop started one row late.
dedupeSkipsFirst(rows) == DedupeLoop(rows, 2, {}, <<>>)

RECURSIVE DedupeKeepingKeyless(_, _, _, _)
DedupeKeepingKeyless(rows, k, seen, out) ==
  IF k > Len(rows) THEN out
  ELSE LET key == Key(rows[k])
       IN  IF key \in seen THEN DedupeKeepingKeyless(rows, k + 1, seen, out)
           ELSE DedupeKeepingKeyless(rows, k + 1, seen \cup {key},
                                     Append(out, rows[k]))

\* dedupe without the `if not key: continue` of lines 116-117.
dedupeKeepsKeyless(rows) == DedupeKeepingKeyless(rows, 1, {}, <<>>)

dedupe(rows) == DedupeLoop(rows, 1, {}, <<>>)

\* ------------------------------------------------------ global-mode select

RECURSIVE FilterDated(_)
\* [r for r in all_rows if r.get("published_dt") is not None]
FilterDated(rows) ==
  IF rows = <<>> THEN <<>>
  ELSE IF Head(rows).published_dt # None
       THEN <<Head(rows)>> \o FilterDated(Tail(rows))
       ELSE FilterDated(Tail(rows))

\* Comparing an offset-naive with an offset-aware datetime raises TypeError,
\* and sorting two or more rows compares every kind present with another.
SortRaises(rows) ==
  \E i, j \in 1..Len(rows) : rows[i].published_dt.kind # rows[j].published_dt.kind

\* x placed in a list sorted descending, behind the elements not older than it.
InsertDesc(sorted, x) ==
  LET ahead == {i \in 1..Len(sorted) : sorted[i].published_dt.t >= x.published_dt.t}
      n == Cardinality(ahead)
  IN  SubSeq(sorted, 1, n) \o <<x>> \o SubSeq(sorted, n + 1, Len(sorted))

RECURSIVE SortLoop(_, _)
SortLoop(rows, sorted) ==
  IF rows = <<>> THEN sorted
  ELSE SortLoop(Tail(rows), InsertDesc(sorted, Head(rows)))

\* x placed in a list sorted ascending, behind the elements not newer than it.
InsertAsc(sorted, x) ==
  LET ahead == {i \in 1..Len(sorted) : sorted[i].published_dt.t <= x.published_dt.t}
      n == Cardinality(ahead)
  IN  SubSeq(sorted, 1, n) \o <<x>> \o SubSeq(sorted, n + 1, Len(sorted))

RECURSIVE SortAscLoop(_, _)
SortAscLoop(rows, sorted) ==
  IF rows = <<>> THEN sorted
  ELSE SortAscLoop(Tail(rows), InsertAsc(sorted, Head(rows)))

\* The sort without reverse=True: oldest first.
SortAscending(rows) == SortAscLoop(rows, <<>>)

\* list.sort(key=published_dt, reverse=True): stable, newest first.
SortDesc(rows) == SortLoop(rows, <<>>)

\* all_rows[:TOTAL_GLOBAL_TOP]
Truncate(rows) == SubSeq(rows, 1, Min(TOTAL_GLOBAL_TOP, Len(rows)))

\* ------------------------------------------------------------------- state

VARIABLES
  MODE,        \* the module-level MODE, fixed when the module is loaded
  pc,          \* where the run is
  s,           \* main: index in FEEDS of the source being resolved
  all_rows,    \* main: all_rows
  fetched,     \* history: the concatenation of every source's rows
  url_list,    \* try_feed_urls: its arguments ...
  max_items,
  debug_name,
  i,           \* ... the index in url_list of the loop's url
  tried,       \* history: the urls fetched by this call, in order
  resp,        \* (status, text, ctype) of the last fetch_feed_text
  parsed,      \* result of the last feedparser.parse
  rows,        \* rows
  files,       \* whether the .csv and .xlsx were written, and their rows
  console,     \* whether the 'No headlines fetched' message was printed
  dd_pc,       \* SpecDedupe: dedupe applied to dd_in, and to its result
  dd_in,
  dd_once,
  dd_twice

vars ==
  <<MODE, pc, s, all_rows, fetched, url_list, max_items, debug_name, i, tried,
    resp, parsed, rows, files, console, dd_pc, dd_in, dd_once, dd_twice>>

mainVars == <<s, all_rows, fetched, files, console>>
callArgs == <<url_list, max_items, debug_name>>
ddVars == <<dd_pc, dd_in, dd_once, dd_twice>>

NoFiles == [written |-> FALSE, rows |-> <<>>]
NoResp == [status |-> 0, text |-> "", ctype |-> ""]
NoParse == [bozo |-> FALSE, entries |-> <<>>]

\* text of a response whose request raised: None.
TextNone == "None"
Body == "<body>"

\* What fetch_feed_text returns: (None, None, "error: ...") when requests.get
\* raises, else the status, the body text and the Content-Type.
TransportFailure == [status |-> 0, text |-> TextNone, ctype |-> "error: timeout"]

Responses ==
  {TransportFailure}
    \cup [status : {200, 404}, text : {"", Body}, ctype : {"text/html"}]

\* What feedparser.parse returns: entries or none, with or without the bozo
\* flag (a malformed document may still hold entries).
LongFeeds == {GenFeed(n) : n \in (MaxShort + 1)..MaxEntries}

ParseResults ==
  [bozo : BOOLEAN, entries : {<<>>} \cup LongFeeds]
    \cup [bozo : {FALSE}, entries : ShortFeeds]

\* `not text`
NoBodyText(r) == r.text = TextNone \/ r.text = ""

MainInit ==
  /\ pc = "main"
  /\ s = 1
  /\ all_rows = <<>>
  /\ fetched = <<>>
  /\ url_list = <<>>
  /\ max_items = 0
  /\ debug_name = ""
  /\ i = 0
  /\ tried = <<>>
  /\ resp = NoResp
  /\ parsed = NoParse
  /\ rows = <<>>
  /\ files = NoFiles
  /\ console = FALSE

DedupeIdle ==
  /\ dd_pc = "idle"
  /\ dd_in = <<>>
  /\ dd_once = <<>>
  /\ dd_twice = <<>>

Init ==
  /\ MODE \in Modes
  /\ MainInit
  /\ DedupeIdle

\* --------------------------------------------------------- try_feed_urls

\* main, lines 142-143 and 148-149: the call for the next source.
CallTryFeedUrls ==
  /\ pc = "main"
  /\ s <= Len(FEEDS)
  /\ url_list' = FEEDS[s].urls
  /\ max_items' = IF MODE = "per_source" THEN HEADLINES_PER_SOURCE
                  ELSE MAX_PER_SOURCE_FOR_GLOBAL
  /\ debug_name' = FEEDS[s].name
  /\ rows' = <<>>
  /\ i' = 1
  /\ tried' = <<>>
  /\ resp' = NoResp
  /\ parsed' = NoParse
  /\ pc' = "for"
  /\ UNCHANGED <<MODE, mainVars, ddVars>>

\* The fetch without the try/except of lines 45-49: a transport failure is
\* raised through try_feed_urls.
FetchPropagates ==
  /\ pc = "for"
  /\ i <= Len(url_list)
  /\ \E r \in Responses :
       /\ resp' = r
       /\ pc' = IF r = TransportFailure THEN "raised" ELSE "fetched"
  /\ tried' = Append(tried, url_list[i])
  /\ UNCHANGED <<MODE, mainVars, callArgs, i, parsed, rows, ddVars>>

\* Lines 61-63: the loop takes the next url and fetches it.
Fetch ==
  /\ pc = "for"
  /\ i <= Len(url_list)
  /\ \E r \in Responses : resp' = r
  /\ tried' = Append(tried, url_list[i])
  /\ pc' = "fetched"
  /\ UNCHANGED <<MODE, mainVars, callArgs, i, parsed, rows, ddVars>>

\* Lines 65-67: no body text, on to the next url.
SkipNoBody ==
  /\ pc = "fetched"
  /\ NoBodyText(resp)
  /\ i' = i + 1
  /\ pc' = "for"
  /\ UNCHANGED <<MODE, mainVars, callArgs, tried, resp, parsed, rows, ddVars>>

\* Line 69: feedparser.parse(text).  The response is not read again, except
\* to print a snippet of it, before the next fetch replaces it.
Parse ==
  /\ pc = "fetched"
  /\ ~NoBodyText(resp)
  /\ \E p \in ParseResults : parsed' = p
  /\ resp' = NoResp
  /\ pc' = "parsed"
  /\ UNCHANGED <<MODE, mainVars, callArgs, i, tried, rows, ddVars>>

\* Lines 74-79: no entries, on to the next url.
SkipZeroEntries ==
  /\ pc = "parsed"
  /\ Len(parsed.entries) = 0
  /\ i' = i + 1
  /\ pc' = "for"
  /\ UNCHANGED <<MODE, mainVars, callArgs, tried, resp, parsed, rows, ddVars>>

\* The loop body without the break of line 108: on to the next url.
TakeEntriesNoBreak ==
  /\ pc = "parsed"
  /\ Len(parsed.entries) # 0
  /\ rows' = rows \o RowsOf(parsed.entries, max_items, debug_name)
  /\ i' = i + 1
  /\ pc' = "for"
  /\ UNCHANGED <<MODE, mainVars, callArgs, tried, resp, parsed, ddVars>>

\* Lines 81-109: the rows of the first max_items entries, break, return.
TakeEntries ==
  /\ pc = "parsed"
  /\ Len(parsed.entries) # 0
  /\ rows' = rows \o RowsOf(parsed.entries, max_items, debug_name)
  /\ pc' = "return"
  /\ UNCHANGED <<MODE, mainVars, callArgs, i, tried, resp, parsed, ddVars>>

\* Lines 61 and 109: the url list is exhausted, return.
Exhausted ==
  /\ pc = "for"
  /\ i > Len(url_list)
  /\ pc' = "return"
  /\ UNCHANGED <<MODE, mainVars, callArgs, i, tried, resp, parsed, rows, ddVars>>

\* -------------------------------------------------------------------- main

\* Lines 144-145 and 150-151: all_rows.extend(rows), next source.
Extend ==
  /\ pc = "return"
  /\ all_rows' = all_rows \o rows
  /\ fetched' = fetched \o rows
  /\ s' = s + 1
  /\ url_list' = <<>>
  /\ max_items' = 0
  /\ debug_name' = ""
  /\ i' = 0
  /\ tried' = <<>>
  /\ resp' = NoResp
  /\ parsed' = NoParse
  /\ rows' = <<>>
  /\ pc' = "main"
  /\ UNCHANGED <<MODE, files, console, ddVars>>

\* Line 141: per_source mode has nothing between the loop and dedupe.
PerSourceDone ==
  /\ pc = "main"
  /\ s > Len(FEEDS)
  /\ MODE = "per_source"
  /\ pc' = "dedupe"
  /\ UNCHANGED <<MODE, mainVars, callArgs, i, tried, resp, parsed, rows, ddVars>>

\* Lines 153-155: keep the dated rows, sort them newest first, keep the top.
\* The sort raises TypeError when it compares a naive with an aware datetime.
SortAndLimit ==
  /\ pc = "main"
  /\ s > Len(FEEDS)
  /\ MODE = "global_top"
  /\ LET dated == FilterDated(all_rows)
     IN  IF SortRaises(dated)
         THEN /\ all_rows' = dated
              /\ pc' = "raised"
         ELSE /\ all_rows' = Truncate(SortDesc(dated))
              /\ pc' = "dedupe"
  /\ UNCHANGED <<MODE, s, fetched, files, console, callArgs, i, tried, resp,
                 parsed, rows, ddVars>>

\* Line 157
Dedupe ==
  /\ pc = "dedupe"
  /\ all_rows' = dedupe(all_rows)
  /\ pc' = "deduped"
  /\ UNCHANGED <<MODE, s, fetched, files, console, callArgs, i, tried, resp,
                 parsed, rows, ddVars>>

\* Lines 158-160
NoHeadlines ==
  /\ pc = "deduped"
  /\ all_rows = <<>>
  /\ console' = TRUE
  /\ pc' = "done"
  /\ UNCHANGED <<MODE, s, all_rows, fetched, files, callArgs, i, tried, resp,
                 parsed, rows, ddVars>>

\* Lines 162-163 and 124-135: one row per record, to both files.
Save ==
  /\ pc = "deduped"
  /\ all_rows # <<>>
  /\ files' = [written |-> TRUE, rows |-> all_rows]
  /\ pc' = "done"
  /\ UNCHANGED <<MODE, s, all_rows, fetched, console, callArgs, i, tried, resp,
                 parsed, rows, ddVars>>

Next ==
  \/ CallTryFeedUrls
  \/ Fetch
  \/ SkipNoBody
  \/ Parse
  \/ SkipZeroEntries
  \/ TakeEntries
  \/ Exhausted
  \/ Extend
  \/ PerSourceDone
  \/ SortAndLimit
  \/ Dedupe
  \/ NoHeadlines
  \/ Save

Spec == Init /\ [][Next]_vars

\* ------------------------------------------------- dedupe as a function

\* Rows as the normalizer builds them: stripped title and link, any source.
DedupeRows ==
  [source : {FEEDS[1].name, FEEDS[2].name},
   title : {<<>>, <<"x">>, <<"y">>},
   link : {<<>>, <<"x">>, <<"y">>},
   published : {""},
   published_dt : {None}]

DedupeInputs == UNION {[1..n -> DedupeRows] : n \in 0..MaxLen}

InitDedupe ==
  /\ MODE = "per_source"
  /\ MainInit
  /\ dd_pc = "idle"
  /\ dd_in \in DedupeInputs
  /\ dd_once = <<>>
  /\ dd_twice = <<>>

DedupeOnce ==
  /\ dd_pc = "idle"
  /\ dd_once' = dedupe(dd_in)
  /\ dd_pc' = "once"
  /\ UNCHANGED <<MODE, pc, mainVars, callArgs, i, tried, resp, parsed, rows,
                 dd_in, dd_twice>>

DedupeTwice ==
  /\ dd_pc = "once"
  /\ dd_twice' = dedupe(dd_once)
  /\ dd_pc' = "twice"
  /\ UNCHANGED <<MODE, pc, mainVars, callArgs, i, tried, resp, parsed, rows,
                 dd_in, dd_once>>

NextDedupe ==
  \/ DedupeOnce
  \/ DedupeTwice

SpecDedupe == InitDedupe /\ [][NextDedupe]_vars

\* ------------------------------------------------------------------ claims

InCall == pc \in {"for", "fetched", "parsed", "return"}
InCallNext == pc' \in {"for", "fetched", "parsed", "return"}

\* try_feed_urls returned because the url list was exhausted.
ReturnedExhausted == pc = "return" /\ i > Len(url_list)

\* try_feed_urls returned from the break.
ReturnedRows == pc = "return" /\ i <= Len(url_list)

C1_Step ==
  /\ InCallNext => tried' = SubSeq(url_list', 1, Len(tried'))
  /\ (InCall /\ InCallNext) =>
       \/ tried' = tried
       \/ pc = "for" /\ i = Len(tried) + 1 /\ tried' = Append(tried, url_list[i])
  /\ (pc = "parsed" /\ parsed.entries # <<>>) =>
       pc' = "return" /\ tried' = tried /\ i' = i
  /\ pc = "return" => ~InCallNext
  /\ pc \in {"fetched", "parsed"} =>
       ((pc' = "for" /\ i' = i + 1)
          <=> \/ pc = "fetched" /\ NoBodyText(resp)
              \/ pc = "parsed" /\ parsed.entries = <<>>)

\* C1: try_feed_urls attempts the candidate urls strictly in list order, each
\* at most once, attempts none after the first url whose parsed body has an
\* entry, and goes on to the next url exactly when the fetch gave no body
\* text or the parse gave no entry.
C1_UrlsInOrderUntilFirstEntries == [][C1_Step]_vars

\* Two urls skipped, the third has entries, the fourth is never fetched.
C1_Witness ==
  /\ pc = "return"
  /\ Len(url_list) = 4
  /\ tried = <<U_ET1, U_ET2, U_ET3>>
  /\ rows # <<>>

\* C2: the result of try_feed_urls is exactly the rows of the first
\* min(max_items, k) entries, in the parser's order, of the first url that
\* has k >= 1 entries: at most max_items rows, each with the configured
\* source name, none from a later url; and no row at all when no url has one.
C2_RowsOfFirstUrlWithEntries ==
  pc = "return" =>
    LET k == Len(parsed.entries)
        n == IF k <= max_items THEN k ELSE max_items
    IN  /\ Len(rows) = n
        /\ Len(rows) <= max_items
        /\ \A j \in 1..Len(rows) :
             /\ rows[j] = NormalizeEntry(parsed.entries[j], FEEDS[s].name)
             /\ rows[j].source = FEEDS[s].name
        /\ ReturnedRows <=> k >= 1
        /\ ReturnedRows => tried = SubSeq(url_list, 1, i)

\* The first url skipped, the second has 3 entries, max_items is 4: 3 rows.
C2_Witness ==
  /\ pc = "return"
  /\ tried = <<U_ET1, U_ET2>>
  /\ Len(parsed.entries) = 3
  /\ max_items = 4
  /\ Len(rows) = 3
  /\ \A j \in 1..3 : rows[j].source = "Economic Times - Top Stories"

C3_State ==
  /\ ReturnedExhausted => rows = <<>> /\ tried = url_list
  /\ pc = "raised" => s > Len(FEEDS)

C3_Step ==
  /\ ((pc = "fetched" /\ NoBodyText(resp)) \/ (pc = "parsed" /\ parsed.entries = <<>>))
       => pc' = "for" /\ i' = i + 1 /\ rows' = rows
  /\ (pc = "for" /\ i > Len(url_list)) => pc' = "return" /\ rows' = rows
  /\ ReturnedExhausted => pc' = "main" /\ s' = s + 1 /\ all_rows' = all_rows
  /\ (pc = "main" /\ s <= Len(FEEDS)) => pc' = "for" /\ url_list' = FEEDS[s].urls

\* C3: when every candidate url of a source fails at transport level, has an
\* empty body or parses to no entry, try_feed_urls returns an empty sequence
\* after attempting all of them, no error crosses its boundary, and the main
\* loop goes on to resolve the remaining sources.
C3_AllUrlsFailGivesEmpty == []C3_State /\ [][C3_Step]_vars

\* The first source has failed and all four urls of the second fail too.
C3_Witness ==
  /\ ReturnedExhausted
  /\ s = 2
  /\ fetched = <<>>
  /\ Len(tried) = 4
  /\ rows = <<>>

\* C4: in global_top mode the list handed to the reporter is sorted
\* non-increasing by published_dt, holds only dated records and is no longer
\* than TOTAL_GLOBAL_TOP.
C4_GlobalTopSortedDatedBounded ==
  (MODE = "global_top" /\ pc \in {"deduped", "done"}) =>
    /\ Len(all_rows) <= TOTAL_GLOBAL_TOP
    /\ \A k \in 1..Len(all_rows) : all_rows[k].published_dt # None
    /\ \A k \in 1..(Len(all_rows) - 1) :
         all_rows[k].published_dt.t >= all_rows[k + 1].published_dt.t
    /\ files.written => files.rows = all_rows

\* A pool of 5 dated records T1 < ... < T5 and 2 undated ones: the files hold
\* the newest TOTAL_GLOBAL_TOP, newest first.
C4_Witness ==
  /\ MODE = "global_top"
  /\ pc = "done"
  /\ Len(fetched) = 7
  /\ Len(FilterDated(fetched)) = 5
  /\ \A k \in 1..4 :
       FilterDated(fetched)[k].published_dt.t < FilterDated(fetched)[k + 1].published_dt.t
  /\ files.written
  /\ files.rows = <<FilterDated(fetched)[5], FilterDated(fetched)[4],
                    FilterDated(fetched)[3], FilterDated(fetched)[2]>>

\* The selector of the specification, applied to a deduplicated set.
Select(mode, records) ==
  IF mode = "per_source" THEN records
  ELSE Truncate(SortDesc(FilterDated(records)))

\* C5: in both run modes dedupe runs once on the concatenation of all
\* sources' rows and the selector is applied to its result, so the final
\* list is Select(dedupe(concatenation)).
C5_SelectAfterDedupe ==
  pc \in {"deduped", "done"} => all_rows = Select(MODE, dedupe(fetched))

\* C6: file output is suppressed only when every source fails: a run that
\* ends writes the files when at least one source returned a row, and prints
\* the message without writing files exactly when no source returned any.
C6_FilesUnlessEverySourceFails ==
  pc = "done" =>
    /\ files.written <=> fetched # <<>>
    /\ console <=> fetched = <<>>

\* C7: no condition is fatal: whatever the fetches return and the entries
\* hold, the run raises no unhandled error.
C7_NoUnhandledError == pc # "raised"

\* The dedup key as the specification words it: the link if non-empty, else
\* the title.
SpecKey(r) == IF r.link # <<>> THEN r.link ELSE r.title

\* The elements of X at the indices in I, in increasing order of index.
RECURSIVE PickFrom(_, _, _)
PickFrom(X, I, k) ==
  IF k > Len(X) THEN <<>>
  ELSE IF k \in I THEN <<X[k]>> \o PickFrom(X, I, k + 1)
  ELSE PickFrom(X, I, k + 1)

\* The indices of the first record of each non-empty key.
FirstOfKey(X) ==
  {k \in 1..Len(X) :
     /\ SpecKey(X[k]) # <<>>
     /\ \A j \in 1..(k - 1) : SpecKey(X[j]) # SpecKey(X[k])}

\* C8: dedupe is idempotent: dedupe(dedupe(X)) = dedupe(X) for every record
\* sequence X, records with an empty link, an empty title or both included.
C8_DedupeIdempotent ==
  dd_pc = "twice" => dd_twice = dd_once

\* An input with a repeated key and a keyless record, deduped twice.
C8_Witness ==
  /\ dd_pc = "twice"
  /\ Len(dd_once) >= 2
  /\ Len(dd_once) < Len(dd_in)
  /\ \E k \in 1..Len(dd_in) : dd_in[k].link = <<>> /\ dd_in[k].title = <<>>
  /\ \E k \in 1..Len(dd_in) : dd_in[k].link = <<>> /\ dd_in[k].title # <<>>

\* C9: dedupe(X) is a subsequence of X, never longer, that keeps for each
\* dedup key exactly the first record carrying it, in the original order, and
\* drops every record whose link and title are both empty; of two records of
\* different sources with the same non-empty link only the first is left.
C9_DedupeFirstOccurrences ==
  dd_pc # "idle" =>
    /\ dd_once = PickFrom(dd_in, FirstOfKey(dd_in), 1)
    /\ Len(dd_once) <= Len(dd_in)
    /\ \A k \in 1..Len(dd_once) :
         dd_once[k].link # <<>> \/ dd_once[k].title # <<>>
    /\ \A k, j \in 1..Len(dd_once) :
         k # j => SpecKey(dd_once[k]) # SpecKey(dd_once[j])

\* Two records of different sources share a link; only the first is left.
C9_Witness ==
  /\ dd_pc = "once"
  /\ Len(dd_in) = 3
  /\ dd_in[1].link = <<"x">> /\ dd_in[1].source = FEEDS[1].name
  /\ dd_in[3].link = <<"x">> /\ dd_in[3].source = FEEDS[2].name
  /\ dd_in[2].link = <<>> /\ dd_in[2].title = <<>>
  /\ dd_once = <<dd_in[1]>>

\* The duplicates of the claim: a shared non-empty link, or two link-less
\* records with the same title.
ClaimedDuplicates(a, b) ==
  \/ a.link # <<>> /\ a.link = b.link
  \/ a.link = <<>> /\ b.link = <<>> /\ a.title = b.title

\* C10: dedupe drops a record with a key only as a duplicate of an earlier
\* record that shares its non-empty link, or, both being link-less, its title:
\* never a linked record for an earlier link-less record's title, never a
\* link-less record for an earlier record's link.
C10_DuplicatesOnlyWithinLinkOrTitle ==
  dd_pc # "idle" =>
    \A k \in 1..Len(dd_in) :
      (SpecKey(dd_in[k]) # <<>> /\ \A j \in 1..(k - 1) :
                                     ~ClaimedDuplicates(dd_in[j], dd_in[k]))
        => \E m \in 1..Len(dd_once) : dd_once[m] = dd_in[k]

====
